---------------------------- MODULE Spec2Model ----------------------------
(***************************************************************************)
(* Model of tibiamaps/map-scripts, decode direction (from-maps.js with     *)
(* colors.js, both held in src/bin/cli.js).                                *)
(*                                                                         *)
(* Three specifications share the module:                                  *)
(*   SpecMarker   parseMarkerData applied to bounded marker blocks         *)
(*   SpecPalette  the pathfinding palette and its reverse lookup           *)
(*   SpecRun      convertFromMaps / renderFloor / drawMapSection over a    *)
(*                small tile set                                           *)
(* Bytes are naturals 0..255, strings are sequences of code points, a      *)
(* buffer is a sequence of bytes addressed from offset 0 as in the code.   *)
(***************************************************************************)
EXTENDS Integers, Sequences, FiniteSets, TLC

VARIABLES
    \* ---- SpecMarker: one call of parseMarkerData
    recs,           \* the records the block was written from (input history)
    cut,            \* how many trailing bytes of the block are missing
    buffer,         \* the marker block handed to parseMarkerData
    floor,          \* its floor argument
    result,         \* what the call produced ("none" before the call)
    \* ---- SpecPalette: one byte through the pathfinding palette and back
    byteIn, color, byteBack, stage,
    \* ---- SpecRun: one run of convertFromMaps
    disk,           \* tile id -> file contents (or unreadable)
    order,          \* floor -> the order glob lists that floor's files in
    includeMarkers, \* the marker-inclusion flag
    pc,             \* position of the run
    floorIndex,     \* index into bounds.floorIDs of the floor being rendered
    files,          \* files of the current floor still to be handled
    mapRaster,      \* GLOBALS.mapContext pixels
    pathRaster,     \* GLOBALS.pathContext pixels
    markers,        \* the module-level marker accumulator
    written,        \* output files written so far
    handled,        \* tiles whose drawMapSection resolved
    failure         \* the tile and error that ended the run, if any

markerVars  == <<recs, cut, buffer, floor, result>>
paletteVars == <<byteIn, color, byteBack, stage>>
runVars     == <<disk, order, includeMarkers, pc, floorIndex, files,
                 mapRaster, pathRaster, markers, written, handled, failure>>
vars        == <<markerVars, paletteVars, runVars>>

---------------------------------------------------------------------------
(* Bounds of the model *)

\* longest marker block, in records
MaxMarkers == 3
\* most trailing bytes removed from a block
MaxCut == 16
\* side of a tile in pixels; stands for the 256 of renderMap/renderPath
TileSize == 2

---------------------------------------------------------------------------
(* Values of the JavaScript runtime *)

\* `undefined` read past the end of a buffer, and the NaN arithmetic makes of it
Undefined == 0 - 1
NaN == 0 - 2

Min(a, b) == IF a < b THEN a ELSE b

RECURSIVE Pow256(_)
Pow256(k) == IF k = 0 THEN 1 ELSE 256 * Pow256(k - 1)

\* buf.slice(start, end): both ends clamped to the buffer
Slice(buf, start, end) ==
    LET s == Min(start, Len(buf))
        e == Min(end, Len(buf))
    IN  IF e <= s THEN <<>> ELSE [i \in 1..(e - s) |-> buf[s + i]]

\* the bounds check of Buffer reads
InRange(buf, offset, byteLength) == offset + byteLength <= Len(buf)

\* buf.readUInt8(offset, 1): the second argument is `noAssert` on runtimes
\* that honour it, and then a read past the end yields undefined
readUInt8(buf, offset) ==
    IF InRange(buf, offset, 1) THEN buf[offset + 1] ELSE Undefined

RECURSIVE readUIntLE(_, _, _)
readUIntLE(buf, offset, byteLength) ==
    IF byteLength = 0 THEN 0
    ELSE readUIntLE(buf, offset, byteLength - 1)
         + buf[offset + byteLength] * Pow256(byteLength - 1)

\* xTile * 256 + xOffset in JavaScript numbers.  The sample coordinates stay
\* small enough for x * 100000 + y to fit TLC's 32-bit integers.
Coordinate(tile, offset) ==
    IF tile = Undefined \/ offset = Undefined THEN NaN ELSE tile * 256 + offset

---------------------------------------------------------------------------
(* Text: windows-1252, JSON.stringify, String.prototype.toLowerCase *)

\* windows1252.decode of one byte
W1252(b) ==
    CASE b = 128 -> 8364 [] b = 130 -> 8218 [] b = 131 -> 402
      [] b = 132 -> 8222 [] b = 133 -> 8230 [] b = 134 -> 8224
      [] b = 135 -> 8225 [] b = 136 -> 710  [] b = 137 -> 8240
      [] b = 138 -> 352  [] b = 139 -> 8249 [] b = 140 -> 338
      [] b = 142 -> 381  [] b = 145 -> 8216 [] b = 146 -> 8217
      [] b = 147 -> 8220 [] b = 148 -> 8221 [] b = 149 -> 8226
      [] b = 150 -> 8211 [] b = 151 -> 8212 [] b = 152 -> 732
      [] b = 153 -> 8482 [] b = 154 -> 353  [] b = 155 -> 8250
      [] b = 156 -> 339  [] b = 158 -> 382  [] b = 159 -> 376
      [] OTHER -> b

windows1252decode(bytes) == [i \in 1..Len(bytes) |-> W1252(bytes[i])]

\* toLowerCase of one code point, over the range windows-1252 decodes to
LowerCodePoint(c) ==
    CASE c >= 65 /\ c <= 90 -> c + 32
      [] c >= 192 /\ c <= 222 /\ c # 215 -> c + 32
      [] c = 338 -> 339 [] c = 352 -> 353 [] c = 381 -> 382
      [] c = 376 -> 255
      [] OTHER -> c

toLowerCase(s) == [i \in 1..Len(s) |-> LowerCodePoint(s[i])]

RECURSIVE Flatten(_)
Flatten(ss) == IF ss = <<>> THEN <<>> ELSE Head(ss) \o Flatten(Tail(ss))

HexDigit(n) == IF n < 10 THEN 48 + n ELSE 87 + n

\* one code point inside a JSON string literal
JSONEscape(c) ==
    CASE c = 34 -> <<92, 34>>
      [] c = 92 -> <<92, 92>>
      [] c = 8  -> <<92, 98>>
      [] c = 9  -> <<92, 116>>
      [] c = 10 -> <<92, 110>>
      [] c = 12 -> <<92, 102>>
      [] c = 13 -> <<92, 114>>
      [] c < 32 -> <<92, 117, 48, 48, HexDigit(c \div 16), HexDigit(c % 16)>>
      [] OTHER  -> <<c>>

JSONString(s) == <<34>> \o Flatten([i \in 1..Len(s) |-> JSONEscape(s[i])]) \o <<34>>

RECURSIVE Digits(_)
Digits(n) == IF n < 10 THEN <<48 + n>> ELSE Digits(n \div 10) \o <<48 + (n % 10)>>

\* a number in JSON: NaN is written null
JSONNumber(n) == IF n = NaN THEN <<110, 117, 108, 108>> ELSE Digits(n)

\* "description", "icon", "x", "y", "z" as code points
KeyDescription == <<100, 101, 115, 99, 114, 105, 112, 116, 105, 111, 110>>
KeyIcon == <<105, 99, 111, 110>>
KeyX == <<120>>
KeyY == <<121>>
KeyZ == <<122>>

JSONMember(key, value) == JSONString(key) \o <<58>> \o value

\* JSON.stringify of a marker after sortObject: keys in alphabetical order,
\* a member whose value is undefined left out
JSONStringify(marker) ==
    <<123>>
    \o JSONMember(KeyDescription, JSONString(marker.description))
    \o (IF marker.icon.defined
        THEN <<44>> \o JSONMember(KeyIcon, JSONString(marker.icon.name))
        ELSE <<>>)
    \o <<44>> \o JSONMember(KeyX, JSONNumber(marker.x))
    \o <<44>> \o JSONMember(KeyY, JSONNumber(marker.y))
    \o <<44>> \o JSONMember(KeyZ, JSONNumber(marker.z))
    \o <<125>>

---------------------------------------------------------------------------
(* icons.js *)

IconStar == <<115, 116, 97, 114>>
IconSkull == <<115, 107, 117, 108, 108>>
IconExclamation == <<33>>

\* icons.byID[id]
iconsByID(id) ==
    CASE id = 2  -> [defined |-> TRUE, name |-> IconExclamation]
      [] id = 3  -> [defined |-> TRUE, name |-> IconStar]
      [] id = 12 -> [defined |-> TRUE, name |-> IconSkull]
      [] OTHER   -> [defined |-> FALSE, name |-> <<>>]


---------------------------------------------------------------------------
(* Marker blocks as the game client writes them (the layout parseMarkerData *)
(* reads): 4 bytes count, then per record x offset, x tile, 2 blank bytes, *)
(* y offset, y tile, 2 blank bytes, 4 bytes icon id, 2 bytes description   *)
(* length, the description bytes.                                          *)

RECURSIVE LittleEndian(_, _)
LittleEndian(n, byteLength) ==
    IF byteLength = 0 THEN <<>>
    ELSE <<n % 256>> \o LittleEndian(n \div 256, byteLength - 1)

EncodeRecord(r) ==
    <<r.xOffset, r.xTile, 0, 0, r.yOffset, r.yTile, 0, 0>>
    \o LittleEndian(r.id, 4)
    \o LittleEndian(Len(r.text), 2)
    \o r.text

EncodeBlock(rs) ==
    LittleEndian(Len(rs), 4) \o Flatten([i \in 1..Len(rs) |-> EncodeRecord(rs[i])])

Rec(xo, xt, yo, yt, id, text) ==
    [xOffset |-> xo, xTile |-> xt, yOffset |-> yo, yTile |-> yt,
     id |-> id, text |-> text]

\* the records blocks are written from: the three positions (10,20), (5,5),
\* (10,10); at (10,10) a second record differing in letter case only, one with
\* another icon, one with another text; positions in tile column/row 1; two
\* texts that are case variants only under windows-1252 (0x8A, 0x9A)
SampleRecords ==
    { Rec(10, 0, 20, 0, 3, <<97, 98>>),
      Rec(5, 0, 5, 0, 3, <<97, 98>>),
      Rec(10, 0, 10, 0, 3, <<97, 98>>),
      Rec(10, 0, 10, 0, 3, <<65, 66>>),
      Rec(10, 0, 10, 0, 12, <<97, 98>>),
      Rec(10, 0, 10, 0, 3, <<97, 99>>),
      Rec(5, 1, 5, 0, 3, <<138>>),
      Rec(5, 1, 5, 0, 3, <<154>>),
      Rec(5, 0, 5, 1, 3, <<97, 98>>) }

RecordLists == UNION { [1..n -> SampleRecords] : n \in 0..MaxMarkers }

---------------------------------------------------------------------------
(* parseMarkerData *)

NoResult == [status |-> "none", markers |-> <<>>]
Returned(ms) == [status |-> "ok", markers |-> ms]
Thrown(name) == [status |-> name, markers |-> <<>>]

\* one pass of the while loop, reading the record at `index`
readMarker(buf, floorArg, index, noAssert) ==
    LET xOffset == readUInt8(buf, index)
        xTile   == readUInt8(buf, index + 1)
        yOffset == readUInt8(buf, index + 4)
        yTile   == readUInt8(buf, index + 5)
        idAt    == index + 8
        sizeAt  == index + 12
        textAt  == index + 14
        byteReadThrows ==
            /\ ~noAssert
            /\ \E at \in {index, index + 1, index + 4, index + 5} :
                   ~InRange(buf, at, 1)
    IN  IF byteReadThrows \/ ~InRange(buf, idAt, 4) \/ ~InRange(buf, sizeAt, 2)
        THEN [thrown |-> TRUE, marker |-> <<>>, index |-> index]
        ELSE LET descriptionLength == readUIntLE(buf, sizeAt, 2)
                 descriptionBuffer ==
                     Slice(buf, textAt, textAt + descriptionLength)
             IN  [thrown |-> FALSE,
                  marker |->
                      [x |-> Coordinate(xTile, xOffset),
                       y |-> Coordinate(yTile, yOffset),
                       z |-> floorArg,
                       icon |-> iconsByID(readUIntLE(buf, idAt, 4)),
                       description |-> windows1252decode(descriptionBuffer)],
                  index |-> textAt + descriptionLength]

\* the while loop: until markerCount markers are read
RECURSIVE readMarkers(_, _, _, _, _, _)
readMarkers(buf, floorArg, index, markerCount, acc, noAssert) ==
    IF Len(acc) >= markerCount THEN Returned(acc)
    ELSE LET step == readMarker(buf, floorArg, index, noAssert)
         IN  IF step.thrown THEN Thrown("RangeError")
             ELSE readMarkers(buf, floorArg, step.index, markerCount,
                              Append(acc, step.marker), noAssert)

\* variant of the key with the roles of x and y exchanged
SortKeyYFirst(m) == m.y * 100000 + m.x

\* the key of the comparator given to markers.sort
SortKey(m) == m.x * 100000 + m.y

IndexOrders ==
    [n \in 0..MaxMarkers |->
        {p \in [1..n -> 1..n] : \A i, j \in 1..n : i # j => p[i] # p[j]}]

\* markers.sort(comparator): any arrangement the comparator accepts; the
\* order of markers with equal keys is the engine's choice
sortOutcomes(ms) ==
    { [i \in 1..Len(ms) |-> ms[p[i]]] :
        p \in { q \in IndexOrders[Len(ms)] :
                  \A i, j \in 1..Len(ms) :
                      i < j => SortKey(ms[q[i]]) <= SortKey(ms[q[j]]) } }

\* variant of the serialization without toLowerCase
SerializedCaseSensitive(marker) == JSONStringify(marker)

\* JSON.stringify(marker).toLowerCase()
Serialized(marker) == toLowerCase(JSONStringify(marker))

RECURSIVE FilterFrom(_, _, _)
FilterFrom(ms, i, seen) ==
    IF i > Len(ms) THEN <<>>
    ELSE LET serialized == Serialized(ms[i])
         IN  IF serialized \in seen
             THEN FilterFrom(ms, i + 1, seen)
             ELSE <<ms[i]>> \o FilterFrom(ms, i + 1, seen \cup {serialized})

\* the filter over a Set of serialized markers
uniqueMarkers(ms) == FilterFrom(ms, 1, {})

\* every value parseMarkerData(buffer, floor) can produce
parseMarkerData(buf, floorArg, noAssert) ==
    IF ~InRange(buf, 0, 4) THEN {Thrown("RangeError")}
    ELSE LET markerCount == readUIntLE(buf, 0, 4)
         IN  IF markerCount = 0 THEN {Returned(<<>>)}
             ELSE LET read == readMarkers(buf, floorArg, 4, markerCount, <<>>, noAssert)
                  IN  IF read.status # "ok" THEN {read}
                      ELSE { Returned(uniqueMarkers(s)) :
                               s \in sortOutcomes(read.markers) }


---------------------------------------------------------------------------
(* SpecMarker: parseMarkerData on every block written from at most         *)
(* MaxMarkers sample records with at most MaxCut trailing bytes missing    *)

\* values of the variables a specification does not use
MarkerIdle ==
    /\ recs = <<>> /\ cut = 0 /\ buffer = <<>> /\ floor = 0 /\ result = NoResult
PaletteIdle ==
    /\ byteIn = 0 /\ color = <<>> /\ byteBack = 0 /\ stage = "idle"
RunIdle ==
    /\ disk = <<>> /\ order = <<>> /\ includeMarkers = FALSE /\ pc = "idle"
    /\ floorIndex = 0 /\ files = <<>> /\ mapRaster = <<>> /\ pathRaster = <<>>
    /\ markers = <<>> /\ written = <<>> /\ handled = {} /\ failure = <<>>

InitMarker ==
    /\ \E rs \in RecordLists :
         LET block == EncodeBlock(rs)
         IN  /\ recs = rs
             /\ cut \in 0..Min(MaxCut, Len(block))
             /\ buffer = Slice(block, 0, Len(block) - cut)
    /\ floor = 7
    /\ result = NoResult
    /\ PaletteIdle /\ RunIdle

\* one call parseMarkerData(buffer, floor)
ParseMarkerData ==
    /\ result.status = "none"
    /\ \E noAssert \in BOOLEAN :
         \E r \in parseMarkerData(buffer, floor, noAssert) : result' = r
    /\ UNCHANGED <<recs, cut, buffer, floor, paletteVars, runVars>>

NextMarker == ParseMarkerData

SpecMarker == InitMarker /\ [][NextMarker]_vars


---------------------------------------------------------------------------
(* colors.js and the two pixel palettes of from-maps.js *)

unexploredMapByte == 0
unexploredPathByte == 250
nonWalkablePathByte == 255
stairsByte == 210

byByte ==
    (0 :> <<0, 0, 0>>) @@ (12 :> <<0, 102, 0>>) @@ (24 :> <<0, 204, 0>>)
    @@ (51 :> <<51, 102, 153>>) @@ (86 :> <<102, 102, 102>>)
    @@ (114 :> <<153, 51, 0>>) @@ (121 :> <<153, 102, 51>>)
    @@ (129 :> <<153, 153, 153>>) @@ (140 :> <<153, 255, 102>>)
    @@ (179 :> <<204, 255, 255>>) @@ (186 :> <<255, 51, 0>>)
    @@ (192 :> <<255, 102, 0>>) @@ (207 :> <<255, 204, 153>>)
    @@ (210 :> <<255, 255, 0>>) @@ (215 :> <<255, 255, 255>>)

unexploredMap == byByte[unexploredMapByte]
nonWalkablePath == byByte[stairsByte]
unexploredPath == <<250, 250, 250>>

\* a 1x1 ImageData of a colour: data[3] = 0xFF
ImageDataOf(c) == <<c[1], c[2], c[3], 255>>

mapPixelPalette == [b \in DOMAIN byByte |-> ImageDataOf(byByte[b])]

\* the loop over range(0, 256)
pathPixelLoop ==
    [b \in 0..255 |->
        IF b = nonWalkablePathByte
        THEN ImageDataOf(nonWalkablePath)
        ELSE ImageDataOf(<<b, b, b>>)]

\* variant of the palette whose unexplored entry takes the map's unexplored colour
pathPixelPaletteUnexploredMap ==
    [pathPixelLoop EXCEPT ![unexploredPathByte] = ImageDataOf(unexploredMap)]

\* the loop, then the entry for unexplored paths
pathPixelPalette ==
    [pathPixelLoop EXCEPT ![unexploredPathByte] = ImageDataOf(unexploredPath)]

\* layer "path" of mapByteToColor
mapByteToColor(b) == pathPixelPalette[b]

\* the reverse index of a palette, built as colors.byColor is: one entry per
\* colour, a later byte of the same colour replacing an earlier one
mapColorToByte(c) ==
    LET bytes == {b \in DOMAIN pathPixelPalette : pathPixelPalette[b] = c}
    IN  IF bytes = {} THEN Undefined
        ELSE CHOOSE b \in bytes : \A other \in bytes : other <= b

---------------------------------------------------------------------------
(* SpecPalette: every byte through the pathfinding palette and back *)

InitPalette ==
    /\ byteIn \in 0..255
    /\ color = <<>>
    /\ byteBack = Undefined
    /\ stage = "byte"
    /\ MarkerIdle /\ RunIdle

MapByteToColor ==
    /\ stage = "byte"
    /\ color' = mapByteToColor(byteIn)
    /\ stage' = "color"
    /\ UNCHANGED <<byteIn, byteBack, markerVars, runVars>>

MapColorToByte ==
    /\ stage = "color"
    /\ byteBack' = mapColorToByte(color)
    /\ stage' = "back"
    /\ UNCHANGED <<byteIn, color, markerVars, runVars>>

NextPalette == MapByteToColor \/ MapColorToByte

SpecPalette == InitPalette /\ [][NextPalette]_vars


---------------------------------------------------------------------------
(* Tile identifiers, bounds, and the tile files of the run *)

\* the tile files of the maps directory: two tiles of floor 7 side by side,
\* one tile of floor 8 below them
Tiles == {12412407, 12512407, 12412508}

\* id-to-xyz.js: three digits x, three digits y, two digits z
idToXyz(id) ==
    [x |-> id \div 100000, y |-> (id \div 100) % 1000, z |-> id % 100]

SetMin(S) == CHOOSE m \in S : \A other \in S : m <= other
SetMax(S) == CHOOSE m \in S : \A other \in S : other <= m

RECURSIVE Ascending(_)
Ascending(S) ==
    IF S = {} THEN <<>> ELSE <<SetMin(S)>> \o Ascending(S \ {SetMin(S)})

\* generate-bounds.js over the tile files
bounds ==
    LET xs == {idToXyz(id).x : id \in Tiles}
        ys == {idToXyz(id).y : id \in Tiles}
    IN  [xMin |-> SetMin(xs), xMax |-> SetMax(xs),
         yMin |-> SetMin(ys), yMax |-> SetMax(ys),
         floorIDs |-> Ascending({idToXyz(id).z : id \in Tiles}),
         width |-> (SetMax(xs) - SetMin(xs) + 1) * TileSize,
         height |-> (SetMax(ys) - SetMin(ys) + 1) * TileSize]

\* glob(`${mapDirectory}/*${floorID}.map`): the ids ending in the floor ID
globMatches(floorID) == {id \in Tiles : id % 100 = floorID}

Orderings(S) ==
    {f \in [1..Cardinality(S) -> S] :
        \A i, j \in 1..Cardinality(S) : i # j => f[i] # f[j]}

\* bytes of one layer of a tile
LayerSize == TileSize * TileSize

\* a layer filled with a repeating run of bytes
Repeat(run) == [i \in 1..LayerSize |-> run[((i - 1) % Len(run)) + 1]]

File(visual, path, markerBlock) ==
    [error |-> FALSE, data |-> Repeat(visual) \o Repeat(path) \o markerBlock]

Unreadable == [error |-> TRUE, data |-> <<>>]

TwoMarkers ==
    EncodeBlock(<<Rec(10, 1, 20, 0, 3, <<97, 98>>),
                  Rec(5, 0, 5, 1, 12, <<97, 99>>)>>)

HeaderCutShort ==
    LET block == EncodeBlock(<<Rec(10, 1, 20, 0, 3, <<97, 98>>)>>)
    IN  Slice(block, 0, Len(block) - 3)

\* what a tile file may hold: a clean tile without markers, a clean tile with
\* two markers, a tile lacking the marker block, a tile with a visual byte
\* outside the palette, a tile whose marker record is cut short; or the file
\* cannot be read
FileSamples ==
    { File(<<24, 51, 210>>, <<100, 255, 250, 0>>, EncodeBlock(<<>>)),
      File(<<12, 210>>, <<255, 7>>, TwoMarkers),
      File(<<24, 51, 210>>, <<100, 255, 250, 0>>, <<>>),
      File(<<24, 1, 51>>, <<100, 255, 250, 0>>, EncodeBlock(<<>>)),
      File(<<12, 210>>, <<255, 7>>, HeaderCutShort),
      Unreadable }

---------------------------------------------------------------------------
(* Canvas *)

Pixels == (0..(bounds.width - 1)) \X (0..(bounds.height - 1))
TilePixels == (0..(TileSize - 1)) \X (0..(TileSize - 1))

Transparent == <<0, 0, 0, 0>>

\* new Canvas(w, h)
NewCanvas(area) == [p \in area |-> Transparent]

\* resetContext: fillStyle, then fillRect over the whole raster.  The style
\* strings of renderFloor lack the closing parenthesis (`rgb(r, g, b`); the
\* rgb( parser of the canvas library the code is written for (new Canvas(w, h))
\* reads the three channels and does not look for it, so the fill has the
\* colour given.
resetContext(context, fillColor) == [p \in DOMAIN context |-> ImageDataOf(fillColor)]

\* context.putImageData(image, xOffset, yOffset): pixels outside are clipped
putImageData(context, image, xOffset, yOffset) ==
    [p \in DOMAIN context |->
        IF <<p[1] - xOffset, p[2] - yOffset>> \in DOMAIN image
        THEN image[<<p[1] - xOffset, p[2] - yOffset>>]
        ELSE context[p]]

\* variant of the position with the inner loop running along a row
PixelPositionRowMajor(bufferIndex) ==
    <<bufferIndex % TileSize, bufferIndex \div TileSize>>

\* <<xIndex, yIndex>> when the nested loops read buffer[bufferIndex]: xIndex
\* is the outer loop, yIndex the inner one
PixelPosition(bufferIndex) ==
    <<bufferIndex \div TileSize, bufferIndex % TileSize>>

\* the loops of renderMap and renderPath from bufferIndex on; a byte without
\* a palette entry makes putImageData throw and ends the loops
RECURSIVE renderLoop(_, _, _, _)
renderLoop(buf, palette, bufferIndex, canvas) ==
    IF bufferIndex = LayerSize
    THEN [thrown |-> FALSE, image |-> canvas, count |-> bufferIndex]
    ELSE LET pixelByte == readUInt8(buf, bufferIndex)
         IN  IF pixelByte \notin DOMAIN palette
             THEN [thrown |-> TRUE, image |-> canvas, count |-> bufferIndex]
             ELSE renderLoop(buf, palette, bufferIndex + 1,
                             [canvas EXCEPT ![PixelPosition(bufferIndex)] =
                                 palette[pixelByte]])

renderMap(buf) == renderLoop(buf, mapPixelPalette, 0, NewCanvas(TilePixels))
renderPath(buf) == renderLoop(buf, pathPixelPalette, 0, NewCanvas(TilePixels))


---------------------------------------------------------------------------
(* drawMapSection, renderFloor, convertFromMaps *)

NoFailure == [tile |-> 0, error |-> "none"]
NothingWritten == [map |-> <<>>, path |-> <<>>, markers |-> <<>>]

\* variant of yOffset computed from the x coordinate
yOffsetFromX(coordinates) == (coordinates.x - bounds.xMin) * TileSize

\* the paste offsets of a tile in the floor rasters
xOffsetOf(coordinates) == (coordinates.x - bounds.xMin) * TileSize
yOffsetOf(coordinates) == (coordinates.y - bounds.yMin) * TileSize

\* variant of resetMarkers that leaves the accumulator as it is
resetMarkersKept == markers

\* resetMarkers: markers = {}
resetMarkers == <<>>

\* handle-sequence.js: the items one after another, each after the promise
\* of the one before it resolved
NextItem(items) == Head(items)
ItemsAfter(items) == Tail(items)

Outcome(m, p, k, e) ==
    [mapRaster |-> m, pathRaster |-> p, markers |-> k, error |-> e]

\* the readFile callback of drawMapSection for one file: the rasters and the
\* accumulator it leaves, and the error thrown out of the callback ("none"
\* when it reaches resolve()).  assertThrows: console.assert throws on a
\* failed assertion; noAssert: readUInt8 honours its second argument.
drawMapSection(fileName, assertThrows, noAssert) ==
    LET id == fileName
        coordinates == idToXyz(id)
        xOffset == xOffsetOf(coordinates)
        yOffset == yOffsetOf(coordinates)
        file == disk[fileName]
        mapImageData == renderMap(Slice(file.data, 0, LayerSize))
        mapPasted == putImageData(mapRaster, mapImageData.image, xOffset, yOffset)
        pathImageData == renderPath(Slice(file.data, LayerSize, 2 * LayerSize))
        pathPasted == putImageData(pathRaster, pathImageData.image, xOffset, yOffset)
        \* an empty markerData is reported by console.warn and parsed all the same
        markerData == Slice(file.data, 2 * LayerSize, Len(file.data))
    IN  IF file.error
        \* reject(error), then buffer.slice on undefined
        THEN {Outcome(mapRaster, pathRaster, markers, "TypeError")}
        ELSE IF mapImageData.thrown
        THEN {Outcome(mapRaster, pathRaster, markers,
                      IF assertThrows THEN "AssertionError" ELSE "TypeError")}
        ELSE IF pathImageData.thrown
        THEN {Outcome(mapPasted, pathRaster, markers, "TypeError")}
        ELSE IF ~includeMarkers
        THEN {Outcome(mapPasted, pathPasted, markers, "none")}
        ELSE { IF results.status # "ok"
               THEN Outcome(mapPasted, pathPasted, markers, results.status)
               ELSE Outcome(mapPasted, pathPasted,
                            IF Len(results.markers) > 0
                            THEN (id :> results.markers) @@ markers
                            ELSE markers,
                            "none") :
               results \in parseMarkerData(markerData, coordinates.z, noAssert) }

InitRun ==
    /\ disk \in [Tiles -> FileSamples]
    /\ order \in [{idToXyz(id).z : id \in Tiles} ->
                    UNION {Orderings(globMatches(idToXyz(id).z)) : id \in Tiles}]
    /\ \A z \in DOMAIN order : order[z] \in Orderings(globMatches(z))
    /\ includeMarkers \in BOOLEAN
    /\ pc = "start"
    /\ floorIndex = 0
    /\ files = <<>>
    /\ mapRaster = <<>>
    /\ pathRaster = <<>>
    /\ markers = <<>>
    /\ written = NothingWritten
    /\ handled = {}
    /\ failure = NoFailure
    /\ MarkerIdle /\ PaletteIdle

\* convertFromMaps: the two floor canvases, then the first floor
ConvertFromMaps ==
    /\ pc = "start"
    /\ mapRaster' = NewCanvas(Pixels)
    /\ pathRaster' = NewCanvas(Pixels)
    /\ floorIndex' = 1
    /\ pc' = IF bounds.floorIDs = <<>> THEN "done" ELSE "renderFloor"
    /\ UNCHANGED <<disk, order, includeMarkers, files, markers, written,
                   handled, failure, markerVars, paletteVars>>

\* renderFloor up to the glob callback
RenderFloor ==
    /\ pc = "renderFloor"
    /\ mapRaster' = resetContext(mapRaster, unexploredMap)
    /\ pathRaster' = resetContext(pathRaster, unexploredPath)
    /\ markers' = resetMarkers
    /\ files' = order[bounds.floorIDs[floorIndex]]
    /\ pc' = "tiles"
    /\ UNCHANGED <<disk, order, includeMarkers, floorIndex, written, handled,
                   failure, markerVars, paletteVars>>

\* drawMapSection of the next file of the floor
DrawMapSection ==
    /\ pc = "tiles"
    /\ files # <<>>
    /\ \E assertThrows \in BOOLEAN, noAssert \in BOOLEAN :
         \E out \in drawMapSection(NextItem(files), assertThrows, noAssert) :
            /\ mapRaster' = out.mapRaster
            /\ pathRaster' = out.pathRaster
            /\ markers' = out.markers
            /\ IF out.error = "none"
               THEN /\ files' = ItemsAfter(files)
                    /\ handled' = handled \cup {NextItem(files)}
                    /\ UNCHANGED <<pc, failure>>
               ELSE \* an exception out of the callback ends the process
                    /\ pc' = "crashed"
                    /\ failure' = [tile |-> NextItem(files), error |-> out.error]
                    /\ UNCHANGED <<files, handled>>
    /\ UNCHANGED <<disk, order, includeMarkers, floorIndex, written,
                   markerVars, paletteVars>>

\* saveCanvasToPNG of the map canvas, once every file of the floor is handled
SaveMap ==
    /\ pc = "tiles"
    /\ files = <<>>
    /\ written' = [written EXCEPT
                     !.map = (bounds.floorIDs[floorIndex] :> mapRaster) @@ @]
    /\ pc' = "savePath"
    /\ UNCHANGED <<disk, order, includeMarkers, floorIndex, files, mapRaster,
                   pathRaster, markers, handled, failure, markerVars, paletteVars>>

\* saveCanvasToPNG of the path canvas
SavePath ==
    /\ pc = "savePath"
    /\ written' = [written EXCEPT
                     !.path = (bounds.floorIDs[floorIndex] :> pathRaster) @@ @]
    /\ pc' = "writeJSON"
    /\ UNCHANGED <<disk, order, includeMarkers, floorIndex, files, mapRaster,
                   pathRaster, markers, handled, failure, markerVars, paletteVars>>

\* writeJSON of the markers, then resolve(): the next floor, or the end
WriteMarkers ==
    /\ pc = "writeJSON"
    /\ written' = [written EXCEPT
                     !.markers = (bounds.floorIDs[floorIndex] :>
                                    (IF includeMarkers THEN markers ELSE <<>>)) @@ @]
    /\ IF floorIndex < Len(bounds.floorIDs)
       THEN /\ floorIndex' = floorIndex + 1
            /\ pc' = "renderFloor"
       ELSE /\ pc' = "done"
            /\ UNCHANGED floorIndex
    /\ UNCHANGED <<disk, order, includeMarkers, files, mapRaster, pathRaster,
                   markers, handled, failure, markerVars, paletteVars>>

NextRun ==
    \/ ConvertFromMaps
    \/ RenderFloor
    \/ DrawMapSection
    \/ SaveMap
    \/ SavePath
    \/ WriteMarkers

SpecRun == InitRun /\ [][NextRun]_vars


---------------------------------------------------------------------------
(* Vocabulary of the properties *)

\* the marker a well-formed record stands for
MarkerOf(r, z) ==
    [x |-> r.xTile * 256 + r.xOffset,
     y |-> r.yTile * 256 + r.yOffset,
     z |-> z,
     icon |-> iconsByID(r.id),
     description |-> windows1252decode(r.text)]

\* x, y, z, icon, and the description without regard to letter case
Identity(m) == <<m.x, m.y, m.z, m.icon, toLowerCase(m.description)>>

Positions(ms) == [i \in 1..Len(ms) |-> <<ms[i].x, ms[i].y>>]

\* the block declares Len(recs) records and lacks bytes of the last ones
Truncated ==
    /\ Len(recs) >= 1
    /\ cut >= 1
    /\ cut <= Len(EncodeBlock(recs)) - 4

\* the 256x256 region of a tile in the floor rasters
RegionOf(id) ==
    { <<(idToXyz(id).x - bounds.xMin) * TileSize + col,
        (idToXyz(id).y - bounds.yMin) * TileSize + row>> :
        col \in 0..(TileSize - 1), row \in 0..(TileSize - 1) }

VisualByte(id, i) == disk[id].data[i + 1]
PathByte(id, i) == disk[id].data[LayerSize + i + 1]

\* drawMapSection was called for the tile
Attempted(id) == id \in handled \/ failure.tile = id

\* the floor whose rasters are being composed
RenderingFloor == pc \in {"tiles", "savePath", "writeJSON"}
CurrentFloor == bounds.floorIDs[floorIndex]
FloorComposed == pc \in {"savePath", "writeJSON"} \/ (pc = "tiles" /\ files = <<>>)

\* the tile of floor z whose region holds pixel p
TileAt(z, p) == CHOOSE id \in globMatches(z) : p \in RegionOf(id)

\* index into a layer of the byte shown at pixel p of the tile's region
ByteIndexAt(id, p) ==
    (p[1] - (idToXyz(id).x - bounds.xMin) * TileSize) * TileSize
    + (p[2] - (idToXyz(id).y - bounds.yMin) * TileSize)

ComposedMapPixel(z, p) ==
    IF \E id \in globMatches(z) : p \in RegionOf(id)
    THEN mapPixelPalette[VisualByte(TileAt(z, p), ByteIndexAt(TileAt(z, p), p))]
    ELSE ImageDataOf(unexploredMap)

ComposedPathPixel(z, p) ==
    IF \E id \in globMatches(z) : p \in RegionOf(id)
    THEN pathPixelPalette[PathByte(TileAt(z, p), ByteIndexAt(TileAt(z, p), p))]
    ELSE ImageDataOf(unexploredPath)

MarkerBlockOf(id) == Slice(disk[id].data, 2 * LayerSize, Len(disk[id].data))

\* the lists parseMarkerData can return for the tile's marker block
DecodedLists(id) ==
    { r.markers : r \in { q \in parseMarkerData(MarkerBlockOf(id), idToXyz(id).z, TRUE)
                                \cup parseMarkerData(MarkerBlockOf(id), idToXyz(id).z, FALSE) :
                            q.status = "ok" } }

---------------------------------------------------------------------------
(* Properties *)

\* C1: with marker processing enabled, drawMapSection of a readable tile that
\* has zero bytes after the two layers completes normally: the tile is
\* handled and no exception ends the run.
C1_EmptyMarkerBlockDecodes ==
    \A id \in Tiles :
        ( /\ pc # "idle"
          /\ includeMarkers
          /\ ~disk[id].error
          /\ Len(disk[id].data) = 2 * LayerSize
          /\ Attempted(id) )
        => (id \in handled /\ failure.tile # id)

\* C2: the list parseMarkerData returns is ordered by non-decreasing
\* x*100000 + y, whatever the order of the records; the records at (10,20),
\* (5,5), (10,10) come back as (5,5), (10,10), (10,20).
C2_SortedByKey ==
    result.status = "ok" =>
        /\ \A i, j \in 1..Len(result.markers) :
             i < j => result.markers[i].x * 100000 + result.markers[i].y
                        <= result.markers[j].x * 100000 + result.markers[j].y
        /\ (cut = 0 /\ Positions([k \in 1..Len(recs) |-> MarkerOf(recs[k], floor)])
                         = <<(<<10, 20>>), (<<5, 5>>), (<<10, 10>>)>>)
             => Positions(result.markers) = <<(<<5, 5>>), (<<10, 10>>), (<<10, 20>>)>>

C2_Witness ==
    /\ result.status = "ok"
    /\ cut = 0
    /\ Len(recs) = 3
    /\ Positions([k \in 1..Len(recs) |-> MarkerOf(recs[k], floor)])
         = <<(<<10, 20>>), (<<5, 5>>), (<<10, 10>>)>>
    /\ Positions(result.markers) = <<(<<5, 5>>), (<<10, 10>>), (<<10, 20>>)>>

\* C3: the list parseMarkerData returns holds no two entries equal in x, y, z,
\* icon and in description up to letter case; of a whole block every record is
\* represented by exactly one entry equal to it in these fields, and every
\* entry is one of the block's records as written.
C3_Deduplicated ==
    result.status = "ok" =>
        /\ \A i, j \in 1..Len(result.markers) :
             i # j => Identity(result.markers[i]) # Identity(result.markers[j])
        /\ cut = 0 =>
             /\ { Identity(result.markers[i]) : i \in 1..Len(result.markers) }
                  = { Identity(MarkerOf(recs[k], floor)) : k \in 1..Len(recs) }
             /\ \A i \in 1..Len(result.markers) :
                  \E k \in 1..Len(recs) : result.markers[i] = MarkerOf(recs[k], floor)

C3_Witness ==
    /\ result.status = "ok"
    /\ cut = 0
    /\ Len(recs) = 3
    /\ Len(result.markers) = 2
    /\ \E i, j \in 1..3 :
         /\ i # j
         /\ recs[i].text # recs[j].text
         /\ Identity(MarkerOf(recs[i], floor)) = Identity(MarkerOf(recs[j], floor))
    /\ \E i, j \in 1..3 :
         /\ recs[i].id # recs[j].id
         /\ recs[i].text = recs[j].text

\* C4: a failure while one tile is processed does not end the run.
C4_TileFailureIsolated ==
    failure # NoFailure => pc \in {"tiles", "savePath", "writeJSON", "renderFloor", "done"}

\* C5: a tile whose visual layer holds a byte outside the visual palette is
\* rendered to the end without an exception: the tile is handled, and while
\* its floor is composed every pixel whose byte is in the palette shows its
\* palette colour.
C5_UnknownByteIsWarning ==
    \A id \in Tiles :
        ( /\ pc # "idle"
          /\ ~disk[id].error
          /\ \E i \in 0..(LayerSize - 1) : VisualByte(id, i) \notin DOMAIN mapPixelPalette
          /\ Attempted(id) )
        => /\ id \in handled
           /\ failure.tile # id
           /\ (RenderingFloor /\ idToXyz(id).z = CurrentFloor) =>
                \A p \in RegionOf(id) :
                    VisualByte(id, ByteIndexAt(id, p)) \in DOMAIN mapPixelPalette
                    => mapRaster[p] = mapPixelPalette[VisualByte(id, ByteIndexAt(id, p))]

\* C6: parseMarkerData fails on every block that holds fewer bytes than its
\* declared records need, and returns no marker built from missing bytes.
C6_TruncatedBlockFails ==
    (result.status # "none" /\ Truncated) => result.status = "RangeError"

\* C7 as stated: the byte at index i of a pasted layer is shown at column
\* i mod 256, row i div 256 of the tile's region.
C7_RowMajor ==
    \A id \in Tiles :
        (RenderingFloor /\ id \in handled /\ idToXyz(id).z = CurrentFloor) =>
            \A i \in 0..(LayerSize - 1) :
                LET p == <<(idToXyz(id).x - bounds.xMin) * TileSize + (i % TileSize),
                           (idToXyz(id).y - bounds.yMin) * TileSize + (i \div TileSize)>>
                IN  /\ mapRaster[p] = mapPixelPalette[VisualByte(id, i)]
                    /\ pathRaster[p] = pathPixelPalette[PathByte(id, i)]

\* C7 amended: the byte at index i of a pasted layer is shown at column
\* i div 256, row i mod 256 of the tile's region (the layers are laid out
\* column by column).
C7_ColumnMajor ==
    \A id \in Tiles :
        (RenderingFloor /\ id \in handled /\ idToXyz(id).z = CurrentFloor) =>
            \A i \in 0..(LayerSize - 1) :
                LET p == <<(idToXyz(id).x - bounds.xMin) * TileSize + (i \div TileSize),
                           (idToXyz(id).y - bounds.yMin) * TileSize + (i % TileSize)>>
                IN  /\ mapRaster[p] = mapPixelPalette[VisualByte(id, i)]
                    /\ pathRaster[p] = pathPixelPalette[PathByte(id, i)]

C7_Witness ==
    /\ pc = "savePath"
    /\ \E id \in handled :
         /\ idToXyz(id).z = CurrentFloor
         /\ VisualByte(id, 1) # VisualByte(id, TileSize)
         /\ PathByte(id, 1) # PathByte(id, TileSize)
         /\ mapRaster[<<(idToXyz(id).x - bounds.xMin) * TileSize,
                        (idToXyz(id).y - bounds.yMin) * TileSize + 1>>]
              = mapPixelPalette[VisualByte(id, 1)]


\* C8, the composed floor: once every file of a floor is handled, each pixel
\* of the two rasters is decided by the tile whose region holds it (or is the
\* unexplored fill), and the accumulator holds the decoded list of every tile
\* that has markers; nothing of this depends on the order of the files.
C8_Composed ==
    FloorComposed =>
        /\ \A p \in Pixels :
             /\ mapRaster[p] = ComposedMapPixel(CurrentFloor, p)
             /\ pathRaster[p] = ComposedPathPixel(CurrentFloor, p)
        /\ IF includeMarkers
           THEN /\ DOMAIN markers =
                     { id \in globMatches(CurrentFloor) :
                         \E list \in DecodedLists(id) : list # <<>> }
                /\ \A id \in DOMAIN markers : markers[id] \in DecodedLists(id)
           ELSE DOMAIN markers = {}

\* C8, the regions: inside the raster, and disjoint for two tiles of a floor
C8_Regions ==
    \A id \in Tiles :
        /\ RegionOf(id) \subseteq Pixels
        /\ \A other \in Tiles :
             (other # id /\ idToXyz(other).z = idToXyz(id).z)
             => RegionOf(other) \cap RegionOf(id) = {}

\* C8, the writes: handling a file changes no pixel outside its tile's region
C8_OwnRegionOnly ==
    (pc = "tiles" /\ files # <<>>) =>
        \A p \in Pixels \ RegionOf(Head(files)) :
            /\ mapRaster'[p] = mapRaster[p]
            /\ pathRaster'[p] = pathRaster[p]

\* C8: within one floor every tile writes only its own region, the regions
\* are pairwise disjoint and inside the raster, and the composed rasters and
\* marker collection are the same for every order of the floor's files.
C8_OrderIndependent ==
    [](C8_Composed /\ C8_Regions) /\ [][C8_OwnRegionOnly]_vars

C8_Witness ==
    /\ pc = "savePath"
    /\ includeMarkers
    /\ Cardinality(globMatches(CurrentFloor)) = 2
    /\ globMatches(CurrentFloor) \subseteq handled
    /\ DOMAIN markers # {}
    /\ order[CurrentFloor][1] > order[CurrentFloor][2]
    /\ disk[order[CurrentFloor][1]] # disk[order[CurrentFloor][2]]

\* C9: the pathfinding palette has a colour for every byte 0..255: grey
\* (b,b,b), but (255,255,0) for 0xFF; 0xFA is (250,250,250); the colours are
\* pairwise distinct, and mapping a byte to its colour and back returns it.
C9_PathPaletteRoundTrip ==
    /\ DOMAIN pathPixelPalette = 0..255
    /\ stage \in {"color", "back"} =>
         /\ color = IF byteIn = 255 THEN <<255, 255, 0, 255>>
                    ELSE <<byteIn, byteIn, byteIn, 255>>
         /\ byteIn = 250 => color = <<250, 250, 250, 255>>
         /\ \A b \in 0..255 : b # byteIn => mapByteToColor(b) # color
    /\ stage = "back" => byteBack = byteIn

C9_Witness ==
    /\ stage = "back"
    /\ byteIn = 255
    /\ color = <<255, 255, 0, 255>>
    /\ byteBack = 255

\* C10, the outputs: what is written for floor z is written after all tiles
\* of z are handled, shows at every pixel the unexplored fill or the pixel of
\* a tile of z, and lists only markers of floor z under tile ids of floor z.
C10_Outputs ==
    /\ \A z \in DOMAIN written.map :
         /\ globMatches(z) \subseteq handled
         /\ \A p \in Pixels :
              \/ written.map[z][p] = ImageDataOf(unexploredMap)
              \/ \E id \in globMatches(z) :
                   /\ p \in RegionOf(id)
                   /\ written.map[z][p]
                        = mapPixelPalette[VisualByte(id, ByteIndexAt(id, p))]
    /\ \A z \in DOMAIN written.path :
         /\ globMatches(z) \subseteq handled
         /\ \A p \in Pixels :
              \/ written.path[z][p] = ImageDataOf(unexploredPath)
              \/ \E id \in globMatches(z) :
                   /\ p \in RegionOf(id)
                   /\ written.path[z][p]
                        = pathPixelPalette[PathByte(id, ByteIndexAt(id, p))]
    /\ \A z \in DOMAIN written.markers :
         /\ globMatches(z) \subseteq handled
         /\ \A id \in DOMAIN written.markers[z] :
              /\ id \in globMatches(z)
              /\ \A k \in 1..Len(written.markers[z][id]) :
                   written.markers[z][id][k].z = z

\* C10, the reset: before the first tile of a floor is handled both rasters
\* show the unexplored fill everywhere and the accumulator is empty
C10_ResetFirst ==
    (pc = "tiles" /\ handled \cap globMatches(CurrentFloor) = {}) =>
        /\ \A p \in Pixels :
             /\ mapRaster[p] = ImageDataOf(unexploredMap)
             /\ pathRaster[p] = ImageDataOf(unexploredPath)
        /\ DOMAIN markers = {}

\* C10, the sequence: a tile is handled only while its floor is the one being
\* rendered, and the run moves to the next floor only when the three outputs
\* of the floor are written
C10_OneFloorAtATime ==
    /\ handled' # handled =>
         /\ pc = "tiles"
         /\ (handled' \ handled) \subseteq globMatches(CurrentFloor)
    /\ (floorIndex' # floorIndex /\ floorIndex >= 1) =>
         /\ CurrentFloor \in DOMAIN written'.map
         /\ CurrentFloor \in DOMAIN written'.path
         /\ CurrentFloor \in DOMAIN written'.markers

\* C10: floors are rendered one after another on the shared rasters and
\* accumulator: reset, then the floor's tiles, then its three outputs, then
\* the next floor; no output of a floor holds data of another floor.
C10_FloorsInSequence ==
    [](C10_Outputs /\ C10_ResetFirst) /\ [][C10_OneFloorAtATime]_vars

C10_Witness ==
    /\ pc = "done"
    /\ includeMarkers
    /\ DOMAIN written.map = {7, 8}
    /\ DOMAIN written.markers = {7, 8}
    /\ DOMAIN written.markers[7] # {}
    /\ DOMAIN written.markers[8] # DOMAIN written.markers[7]
    /\ written.map[7] # written.map[8]

=============================================================================
